---- MODULE Spec2Model ----
(***************************************************************************)
(* Proficiency tracking of prosakart: the tables of                        *)
(* src/prosakart/sql_handle.py with the calls of SQLHandler, and the menu, *)
(* sheet and test interfaces of src/prosakart/interfaces.py.               *)
(*                                                                         *)
(* Time is counted in whole days since 1 January of a non-leap year; the   *)
(* SQLite date modifiers '+N day' and '+N month' are computed on that      *)
(* calendar the way SQLite computes them (the month is advanced and an     *)
(* overflowing day of month runs into the following month).                *)
(***************************************************************************)
EXTENDS Integers, Sequences, FiniteSets, Bags, TLC

\* ------------------------------------------------------------------ bounds
\* Number of rows of the entries table.
NumEntries == 2
\* Last day the clock reaches while the sheet of every entry is practised.
ShortTime == 3
\* Last day the clock reaches while the sheet of one entry is practised.
MaxTime == 226

Entries == 1..NumEntries

\* The mentions table: sheet 1 mentions the first two entries, sheet 2 the
\* first entry only.
Sheets == {1, 2}

Mentions(sheet) ==
    IF sheet = 1 THEN {e \in Entries : e <= 2} ELSE {e \in Entries : e <= 1}

\* ------------------------------------------------------------- the schema
\* SQL NULL / Python None in the completed column.
NULL == -1

DefaultPoints == 0
DefaultNeeded == 2
DefaultSoFar == 0

\* A row of the entries table directly after its INSERT.
NewRow ==
    [points |-> DefaultPoints, needed |-> DefaultNeeded,
     so_far |-> DefaultSoFar, completed |-> NULL]

VARIABLES
    entries,    \* entries[e]: the points, needed, so_far, completed columns
    now,        \* what datetime('now') returns, in days
    last,       \* the last operation, its arguments and the table before it
    rows,       \* the entry ids that have been inserted into the entries table
    mentions,   \* the mentions table: a set of <<sheet, entry>> pairs
    solutions,  \* solutions[e]: the solutions rows of entry e, in rowid order
    ret,        \* what the last handler call returned
    ui          \* the interface on the screen and its attributes

vars == <<entries, now, last, rows, mentions, solutions, ret, ui>>

\* The tables and attributes that the proficiency operations do not touch.
others == <<rows, mentions, solutions, ui>>

\* ----------------------------------------------------------------- strings
\* Texts are sequences of characters.
Kargad == <<"k", "a", "r", "g", "a", "d">>
Karga == <<"k", "a", "r", "g", "a">>
Kargda == <<"k", "a", "r", "g", "d", "a">>
Xyz == <<"x", "y", "z">>

\* A solutions row.
Solution(text, displayed) == [text |-> text, displayed |-> displayed]

\* Python None and the other values a handler call returns.
None == [kind |-> "None"]

IntValue(n) == [kind |-> "int", value |-> n]

\* The (points, needed, so_far) tuple of update_entry.
Progress(r) ==
    [kind |-> "progress", points |-> r.points, needed |-> r.needed,
     so_far |-> r.so_far]

\* No interface is on the screen.
NoInterface == [screen |-> "none"]

\* ------------------------------------------------------ SQLite date arithmetic
DaysInYear == 365
MonthsInYear == 12

MonthLen(m) ==
    CASE m = 2 -> 28
      [] m \in {4, 6, 9, 11} -> 30
      [] OTHER -> 31

RECURSIVE DaysBefore(_)
\* Days of the year that precede the first day of month m (m may be 13).
DaysBefore(m) == IF m <= 1 THEN 0 ELSE DaysBefore(m - 1) + MonthLen(m - 1)

\* The month (1..12) that day-of-year yd (0-based) falls in.
MonthOf(yd) ==
    CHOOSE m \in 1..MonthsInYear : DaysBefore(m) <= yd /\ yd < DaysBefore(m + 1)

\* datetime(t, '+n day')
AddDays(t, n) == t + n

\* datetime(t, '+n month'): the month number is advanced by n, the day of
\* the month is kept, and the result is normalised.
AddMonths(t, n) ==
    LET y  == t \div DaysInYear
        yd == t % DaysInYear
        m  == MonthOf(yd)
        d  == yd - DaysBefore(m)
        mm == m + n
        y2 == y + ((mm - 1) \div MonthsInYear)
        m2 == ((mm - 1) % MonthsInYear) + 1
    IN  y2 * DaysInYear + DaysBefore(m2) + d

\* ---------------------------------------------------- SQL three-valued logic
\* "t", "f" and "n" (NULL) are the values of an SQL condition.
Bool3(b) == IF b THEN "t" ELSE "f"

And3(a, b) ==
    IF a = "f" \/ b = "f" THEN "f"
    ELSE IF a = "n" \/ b = "n" THEN "n"
    ELSE "t"

Or3(a, b) ==
    IF a = "t" \/ b = "t" THEN "t"
    ELSE IF a = "n" \/ b = "n" THEN "n"
    ELSE "f"

\* a >= b where either side may be NULL.
Gt3_Ge(a, b) == IF a = NULL \/ b = NULL THEN "n" ELSE Bool3(a >= b)

\* a > b where either side may be NULL.
Gt3(a, b) == IF a = NULL \/ b = NULL THEN "n" ELSE Bool3(a > b)

\* datetime(completed, modifier) of a possibly NULL completed.
Shift(completed, unit, n) ==
    IF completed = NULL THEN NULL
    ELSE IF unit = "day" THEN AddDays(completed, n)
    ELSE AddMonths(completed, n)

\* ------------------------------------------------------------ update_entry
MaxNeeded == 10
MinNeeded == 2

\* needed after a wrong answer, without the cap.
MissNeeded_NoCap(r) == r.needed + 1

\* needed after a wrong answer: "if needed < 10: needed += 1".
MissNeeded(r) == IF r.needed < MaxNeeded THEN r.needed + 1 ELSE r.needed

\* A wrong answer whose penalty is taken from the needed that was read.
MissResult_OldPenalty(r) ==
    [points |-> r.points, needed |-> MissNeeded(r), so_far |-> -r.needed,
     completed |-> NULL]

\* A wrong answer that keeps the completed timestamp.
MissResult_KeepCompleted(r) ==
    LET needed == MissNeeded(r)
    IN  [points |-> r.points, needed |-> needed, so_far |-> -needed,
         completed |-> r.completed]

\* The "not correct" branch.
MissResult(r) ==
    LET needed == MissNeeded(r)
    IN  [points |-> r.points, needed |-> needed, so_far |-> -needed,
         completed |-> NULL]

\* needed after a right answer, never lowered.
HitNeeded_NoDemotion(r) == r.needed

\* needed after a right answer: lowered only by the "elif needed > 2" branch.
HitNeeded(r) ==
    IF r.so_far < r.needed THEN r.needed
    ELSE IF r.needed > MinNeeded THEN r.needed - 1
    ELSE r.needed

\* so_far after a right answer, resting on 0 when the increment lands there.
HitSoFar_NoSkip(r) ==
    IF r.so_far < r.needed THEN r.so_far + 1
    ELSE IF r.needed > MinNeeded THEN r.so_far - 1
    ELSE r.so_far

\* so_far after a right answer, left alone when needed is lowered.
HitSoFar_NoDemoteStep(r) ==
    IF r.so_far < r.needed
    THEN (IF r.so_far + 1 = 0 THEN r.needed ELSE r.so_far + 1)
    ELSE r.so_far

\* so_far after a right answer, lowered at every needed once the cycle is
\* complete.
HitSoFar_DemoteAtFloor(r) ==
    IF r.so_far < r.needed
    THEN (IF r.so_far + 1 = 0 THEN r.needed ELSE r.so_far + 1)
    ELSE r.so_far - 1

\* so_far after a right answer.
HitSoFar(r) ==
    IF r.so_far < r.needed
    THEN (IF r.so_far + 1 = 0 THEN r.needed ELSE r.so_far + 1)
    ELSE IF r.needed > MinNeeded THEN r.so_far - 1
    ELSE r.so_far

\* completed after a right answer, stamped on every arrival at 2/2.
HitCompleted_Restamp(r, needed, so_far, t) ==
    IF needed = 2 /\ so_far = 2 THEN t ELSE r.completed

\* completed after a right answer, stamped in the first cycle only.
HitCompleted_FirstCycle(r, needed, so_far, t) ==
    IF needed = 2 /\ so_far = 2 /\ r.completed = NULL /\ r.points = 0
    THEN t ELSE r.completed

\* completed after a right answer: "if needed == so_far == 2 and not
\* completed" takes datetime('now').
HitCompleted(r, needed, so_far, t) ==
    IF needed = 2 /\ so_far = 2 /\ r.completed = NULL THEN t ELSE r.completed

\* The "correct" branch.
HitResult(r, t) ==
    LET needed == HitNeeded(r)
        so_far == HitSoFar(r)
    IN  [points |-> r.points, needed |-> needed, so_far |-> so_far,
         completed |-> HitCompleted(r, needed, so_far, t)]

\* "Determines what the new result should be": the row update_entry writes
\* back for a row read as r, at time t.
NewResult(r, correct, t) == IF correct THEN HitResult(r, t) ELSE MissResult(r)

update_entry(entry, correct) ==
    /\ entries' = [entries EXCEPT ![entry] = NewResult(entries[entry], correct, now)]
    /\ last' = [op |-> "update_entry", entry |-> entry, correct |-> correct,
                before |-> entries]
    /\ ret' = Progress(NewResult(entries[entry], correct, now))
    /\ UNCHANGED <<now, others>>

\* ---------------------------------------------------------- refresh_entries
\* The WHERE clause with the one-day branch open to every points value.
RefreshWhere_AnyPoints(r, t) ==
    Or3(Or3(Or3(
        And3(Bool3(r.completed # NULL), Gt3(t, Shift(r.completed, "day", 1))),
        And3(Gt3(t, Shift(r.completed, "day", 7)), Bool3(r.points = 1))),
        And3(Gt3(t, Shift(r.completed, "month", 1)), Bool3(r.points = 2))),
        And3(Gt3(t, Shift(r.completed, "month", 3)), Bool3(r.points = 3)))

\* The WHERE clause of the UPDATE, with AND binding tighter than OR.
RefreshWhere(r, t) ==
    Or3(Or3(Or3(
        And3(Bool3(r.completed # NULL),
             And3(Gt3(t, Shift(r.completed, "day", 1)), Bool3(r.points = 0))),
        And3(Gt3(t, Shift(r.completed, "day", 7)), Bool3(r.points = 1))),
        And3(Gt3(t, Shift(r.completed, "month", 1)), Bool3(r.points = 2))),
        And3(Gt3(t, Shift(r.completed, "month", 3)), Bool3(r.points = 3)))

\* The SET clause without the so_far column.
RefreshSet_KeepSoFar(r) ==
    [r EXCEPT !.points = r.points + 1, !.completed = NULL]

\* The SET clause without the completed column.
RefreshSet_KeepCompleted(r) ==
    [r EXCEPT !.points = r.points + 1, !.so_far = 0]

\* The SET clause with two points for a promotion.
RefreshSet_TwoPoints(r) ==
    [r EXCEPT !.points = r.points + 2, !.completed = NULL, !.so_far = 0]

\* The SET clause of the UPDATE.
RefreshSet(r) ==
    [r EXCEPT !.points = r.points + 1, !.completed = NULL, !.so_far = 0]

refresh_entries ==
    /\ entries' = [e \in Entries |->
                     IF RefreshWhere(entries[e], now) = "t"
                     THEN RefreshSet(entries[e]) ELSE entries[e]]
    /\ last' = [op |-> "refresh_entries", entry |-> 0, correct |-> FALSE,
                before |-> entries]
    /\ ret' = None
    /\ UNCHANGED <<now, others>>

\* ------------------------------------------------------------------- clock
\* A day passes.
Tick(limit) ==
    /\ now < limit
    /\ now' = now + 1
    /\ last' = [op |-> "tick", entry |-> 0, correct |-> FALSE,
                before |-> entries]
    /\ UNCHANGED <<entries, ret, others>>

\* ----------------------------------------------------------- specification
\* The database after every entry has been added with the answers
\* "kargad" (displayed) and "karga", to the sheets of Mentions.
Init ==
    /\ entries = [e \in Entries |-> NewRow]
    /\ now = 0
    /\ last = [op |-> "init", entry |-> 0, correct |-> FALSE,
               before |-> [e \in Entries |-> NewRow]]
    /\ rows = Entries
    /\ mentions = {p \in Sheets \X Entries : p[2] \in Mentions(p[1])}
    /\ solutions = [e \in Entries |->
                      <<Solution(Kargad, TRUE), Solution(Karga, FALSE)>>]
    /\ ret = None
    /\ ui = NoInterface

\* A scored answer to an entry of the sheet under test.
Hit(sheet) == \E e \in Mentions(sheet) : update_entry(e, TRUE)

Miss(sheet) == \E e \in Mentions(sheet) : update_entry(e, FALSE)

\* ---------------------------------------------------------------- add_entry
\* Adds the next entry with the given answers to the given sheets; the
\* first answer is the displayed one.  Ids are handed out in order.
add_entry(answers, sheets) ==
    /\ Cardinality(rows) < NumEntries
    /\ LET e == Cardinality(rows) + 1
       IN  /\ rows' = rows \cup {e}
           /\ entries' = [entries EXCEPT ![e] = NewRow]
           /\ solutions' = [solutions EXCEPT ![e] =
                              [i \in 1..Len(answers) |->
                                 Solution(answers[i], i = 1)]]
           /\ mentions' = mentions \cup {<<s, e>> : s \in sheets}
           /\ last' = [op |-> "add_entry", entry |-> e, correct |-> FALSE,
                       before |-> entries, answers |-> answers]
    /\ ret' = None
    /\ UNCHANGED <<now, ui>>

\* ----------------------------------------------------------- get_next_entry
\* Length of the deque of recently tested entries.
RecentLen == 3

\* The deques a caller can pass: oldest entry first.
Deques == UNION {[1..n -> Entries] : n \in 0..RecentLen}

\* The rows of entries without the join on the sheet.
SheetRows_NoJoin(sheet) == rows

\* The rows of entries joined with mentions for the sheet.
SheetRows(sheet) == {e \in rows : <<sheet, e>> \in mentions}

\* "CASE WHEN entries.entry = ? THEN i ... ELSE 0 END" over
\* enumerate(previous, 1): the first WHEN that matches decides; the clause
\* is left out for an empty deque.
RecencyCase(e, previous) ==
    IF \E i \in 1..Len(previous) : previous[i] = e
    THEN CHOOSE i \in 1..Len(previous) :
            /\ previous[i] = e
            /\ \A j \in 1..(i - 1) : previous[j] # e
    ELSE 0

\* The second ORDER BY term with the two special values exchanged.
ProficiencyCase_Swapped(r) ==
    IF r.so_far = 2 THEN 1 ELSE IF r.so_far = 0 THEN 2 ELSE 0

\* "CASE WHEN (so_far = 2) THEN 2 WHEN (so_far = 0) THEN 1 ELSE 0 END"
ProficiencyCase(r) ==
    IF r.so_far = 2 THEN 2 ELSE IF r.so_far = 0 THEN 1 ELSE 0

\* The ORDER BY with its first two terms exchanged.
SortsBefore_ProficiencyFirst(e, f, previous) ==
    \/ ProficiencyCase(entries[e]) < ProficiencyCase(entries[f])
    \/ /\ ProficiencyCase(entries[e]) = ProficiencyCase(entries[f])
       /\ RecencyCase(e, previous) < RecencyCase(f, previous)

\* Row e sorts strictly before row f under the first two ORDER BY terms.
SortsBefore(e, f, previous) ==
    \/ RecencyCase(e, previous) < RecencyCase(f, previous)
    \/ /\ RecencyCase(e, previous) = RecencyCase(f, previous)
       /\ ProficiencyCase(entries[e]) < ProficiencyCase(entries[f])

\* The rows RANDOM() can bring to the front: those no row sorts before.
FirstRows(sheet, previous) ==
    {e \in SheetRows(sheet) :
        \A f \in SheetRows(sheet) : ~SortsBefore(f, e, previous)}

\* The selected columns of row e (the question text is left out).
EntryRow(e) ==
    [kind |-> "row", entry |-> e, points |-> entries[e].points,
     needed |-> entries[e].needed, so_far |-> entries[e].so_far]

\* fetchone() of the query: a first row, or None when there is no row.
NextEntryResults(sheet, previous) ==
    IF SheetRows(sheet) = {} THEN {None}
    ELSE {EntryRow(e) : e \in FirstRows(sheet, previous)}

get_next_entry(sheet, previous) ==
    /\ ret' \in NextEntryResults(sheet, previous)
    /\ last' = [op |-> "get_next_entry", entry |-> 0, correct |-> FALSE,
                before |-> entries, sheet |-> sheet, previous |-> previous]
    /\ UNCHANGED <<entries, now, others>>

\* --------------------------------------------------------------- get_points
RECURSIVE SumPoints(_)
\* SUM(points) over a non-empty set of rows.
SumPoints(S) ==
    IF S = {} THEN 0
    ELSE LET e == CHOOSE x \in S : TRUE
         IN  entries[e].points + SumPoints(S \ {e})

\* COUNT(entry) ... WHERE so_far = 2
CountStars(S) == Cardinality({e \in S : entries[e].so_far = 2})

\* The total without the COUNT term.
PointsTotal_SumOnly(S) == IF S = {} THEN None ELSE IntValue(SumPoints(S))

\* SUM over no rows is NULL and NULL + COUNT is NULL, fetched as None.
PointsTotal(S) ==
    IF S = {} THEN None ELSE IntValue(SumPoints(S) + CountStars(S))

get_points ==
    /\ ret' = PointsTotal(rows)
    /\ last' = [op |-> "get_points", entry |-> 0, correct |-> FALSE,
                before |-> entries]
    /\ UNCHANGED <<entries, now, others>>

\* ------------------------------------------------------- the handler's calls
\* Highest needed at which the store specification still answers wrongly.
StoreNeeded == 3

\* The database directly after create_db: every table is empty.
InitEmpty ==
    /\ entries = [e \in Entries |-> NewRow]
    /\ now = 0
    /\ last = [op |-> "init", entry |-> 0, correct |-> FALSE,
               before |-> [e \in Entries |-> NewRow]]
    /\ rows = {}
    /\ mentions = {}
    /\ solutions = [e \in Entries |-> <<>>]
    /\ ret = None
    /\ ui = NoInterface

\* The first entry is added to sheet 1 or to no sheet, the others to
\* sheet 1; sheet 2 stays empty.
AddEntry ==
    \E sheets \in (IF rows = {} THEN {{}, {1}} ELSE {{1}}) :
        add_entry(<<Kargad, Karga>>, sheets)

\* Answers are given to the entries that Mentions lists for sheet 1.
StoreHit == \E e \in rows \cap Mentions(1) : update_entry(e, TRUE)

StoreMiss ==
    \E e \in rows \cap Mentions(1) :
        entries[e].needed < StoreNeeded /\ update_entry(e, FALSE)

\* A call for sheet 1 with any deque, or the first call of a session for
\* sheet 2.
GetNextEntry ==
    \/ \E previous \in Deques : get_next_entry(1, previous)
    \/ get_next_entry(2, <<>>)

\* The handler's selection calls in any order on a growing database.
NextStore ==
    \/ AddEntry
    \/ StoreHit
    \/ StoreMiss
    \/ GetNextEntry

SpecStore == InitEmpty /\ [][NextStore]_vars

\* The handler's points calls in any order on a growing database.
NextPoints ==
    \/ AddEntry
    \/ StoreHit
    \/ StoreMiss
    \/ refresh_entries
    \/ Tick(ShortTime)
    \/ get_points

SpecPoints == InitEmpty /\ [][NextPoints]_vars

\* ----------------------------------------------------------- answer matching
Space == " "

\* "karga" as typed with a blank before and after it.
PaddedKarga == <<Space>> \o Karga \o <<Space>>

RECURSIVE Strip(_)
\* str.strip(): the text without its leading and trailing blanks.
Strip(t) ==
    IF t = <<>> THEN t
    ELSE IF Head(t) = Space THEN Strip(Tail(t))
    ELSE IF t[Len(t)] = Space THEN Strip(SubSeq(t, 1, Len(t) - 1))
    ELSE t

RECURSIVE BlockLen(_, _, _, _, _, _)
\* The length of the common block of a[i:ahi] and b[j:bhi] that starts at
\* the offsets i and j (offsets from 0).
BlockLen(a, b, i, ahi, j, bhi) ==
    IF i < ahi /\ j < bhi /\ a[i + 1] = b[j + 1]
    THEN 1 + BlockLen(a, b, i + 1, ahi, j + 1, bhi)
    ELSE 0

\* SequenceMatcher.find_longest_match on a[alo:ahi] and b[blo:bhi]:
\* <<i, j, k>> of the longest common block, of those the earliest in a, of
\* those the earliest in b; k = 0 when no character is shared.
LongestMatch(a, b, alo, ahi, blo, bhi) ==
    LET blocks == {<<p[1], p[2], BlockLen(a, b, p[1], ahi, p[2], bhi)>> :
                     p \in (alo..(ahi - 1)) \X (blo..(bhi - 1))}
    IN  IF \A m \in blocks : m[3] = 0 THEN <<alo, blo, 0>>
        ELSE CHOOSE m \in blocks :
                \A n \in blocks :
                    \/ m[3] > n[3]
                    \/ m[3] = n[3] /\ m[1] < n[1]
                    \/ m[3] = n[3] /\ m[1] = n[1] /\ m[2] <= n[2]

RECURSIVE Matches(_, _, _, _, _, _)
\* The sum of the sizes of get_matching_blocks: the longest block, then the
\* blocks to its left and to its right.
Matches(a, b, alo, ahi, blo, bhi) ==
    LET m == LongestMatch(a, b, alo, ahi, blo, bhi)
    IN  IF m[3] = 0 THEN 0
        ELSE m[3] + Matches(a, b, alo, m[1], blo, m[2])
                  + Matches(a, b, m[1] + m[3], ahi, m[2] + m[3], bhi)

\* The comparison with a threshold of 0.8.
is_close_Lenient(str_1, str_2) ==
    LET total == Len(str_1) + Len(str_2)
        m     == Matches(str_1, str_2, 0, Len(str_1), 0, Len(str_2))
    IN  IF total = 0 THEN TRUE ELSE 20 * m >= 8 * total

\* SequenceMatcher(None, str_1, str_2).ratio() >= 0.9, where ratio() is
\* 2.0 * matches / total and 1.0 for two empty strings.
is_close(str_1, str_2) ==
    LET total == Len(str_1) + Len(str_2)
        m     == Matches(str_1, str_2, 0, Len(str_1), 0, Len(str_2))
    IN  IF total = 0 THEN TRUE ELSE 20 * m >= 9 * total

\* The values of match in accept_answer.
MISS == 0
FUZZY == 1
EXACT == 2

RECURSIVE MatchLoop_CloseWins(_, _, _, _)
\* The loop with the near match tested before the exact one.
MatchLoop_CloseWins(attempt, answers, match, reattempt) ==
    IF answers = <<>> THEN match
    ELSE IF ~reattempt /\ match = MISS /\ is_close(attempt, Head(answers))
              /\ attempt # Head(answers)
         THEN FUZZY
    ELSE IF attempt = Head(answers) THEN EXACT
    ELSE MatchLoop_CloseWins(attempt, Tail(answers), match, reattempt)

RECURSIVE MatchLoop(_, _, _, _)
\* The loop over the possible answers: an equal answer ends it with 2, a
\* close one sets 1 unless this is a reattempt or match is already set.
MatchLoop(attempt, answers, match, reattempt) ==
    IF answers = <<>> THEN match
    ELSE IF attempt = Head(answers) THEN EXACT
    ELSE IF ~reattempt /\ match = MISS /\ is_close(attempt, Head(answers))
         THEN MatchLoop(attempt, Tail(answers), FUZZY, reattempt)
    ELSE MatchLoop(attempt, Tail(answers), match, reattempt)

\* The orders in which get_answers_for_entry can return the texts of entry
\* e: ORDER BY displayed DESC, rows of equal displayed in any order.
AnswerOrders(e) ==
    LET n == Len(solutions[e])
        flag(i) == IF solutions[e][i].displayed THEN 1 ELSE 0
        perms == {p \in [1..n -> 1..n] :
                    /\ \A i, j \in 1..n : i # j => p[i] # p[j]
                    /\ \A i, j \in 1..n : i < j => flag(p[i]) >= flag(p[j])}
    IN  {[i \in 1..n |-> solutions[e][p[i]].text] : p \in perms}

\* The texts submitted to the matching loop.
Attempts == {Kargad, Kargda, Karga, PaddedKarga, Xyz, <<>>}

\* The answer lists of an entry: one or two different texts.
AnswerLists ==
    LET texts == {Kargad, Karga, Kargda}
    IN  {<<t>> : t \in texts}
          \cup {<<p[1], p[2]>> : p \in {q \in texts \X texts : q[1] # q[2]}}

\* An entry box holding a text, the answers of the entry presented and the
\* reattempt flag, on an empty database.
InitMatch ==
    /\ entries = [e \in Entries |-> NewRow]
    /\ now = 0
    /\ last = [op |-> "init", entry |-> 0, correct |-> FALSE,
               before |-> [e \in Entries |-> NewRow]]
    /\ rows = {}
    /\ mentions = {}
    /\ solutions = [e \in Entries |-> <<>>]
    /\ ret = None
    /\ ui \in {[screen |-> "match", text |-> t, answers |-> a,
                 reattempt |-> r] :
                t \in Attempts, a \in AnswerLists, r \in BOOLEAN}

\* The classification of accept_answer: the text of the entry box is
\* stripped and run through the loop, starting from match = 0.
classify ==
    /\ ui.screen = "match"
    /\ ret' = IntValue(MatchLoop(Strip(ui.text), ui.answers, MISS,
                                 ui.reattempt))
    /\ last' = [op |-> "classify", entry |-> 0, correct |-> FALSE,
                before |-> entries]
    /\ UNCHANGED <<entries, now, others>>

NextMatch == classify

SpecMatch == InitMatch /\ [][NextMatch]_vars

\* ------------------------------------------------------------- interfaces
\* Number of callbacks of animate_bar in one animation.
Frames == 500

\* Most callbacks a test session has pending at a time.
MaxTimers == 2

\* What the user types into the entry box.
Texts == {PaddedKarga, Kargda, Xyz}

\* A callback registered with after(): animate_bar with its so_far
\* argument, or new_entry.
Timer(fn, so_far) == [fn |-> fn, so_far |-> so_far]

\* The record of a handler of the interfaces in last: the table and the
\* screen it found, and what it did.
Event(op, entry, outcome, match) ==
    [op |-> op, entry |-> entry, correct |-> match = EXACT,
     before |-> entries, screen |-> ui.screen, outcome |-> outcome,
     match |-> match]

\* deque(maxlen=3).append
DequeAppend(recent, current) ==
    IF Len(recent) < RecentLen THEN Append(recent, current)
    ELSE Append(Tail(recent), current)

\* The count taken over the rows of the sheet with so_far = 0.
get_sheet_complete_Started(sheet) ==
    Cardinality({e \in SheetRows(sheet) : entries[e].so_far = 0}) = 0

\* COUNT(so_far) of the rows of the sheet with so_far != 2 is zero.
get_sheet_complete(sheet) ==
    Cardinality({e \in SheetRows(sheet) : entries[e].so_far # 2}) = 0

\* The table after the UPDATE of refresh_entries.
Refreshed ==
    [e \in Entries |->
        IF RefreshWhere(entries[e], now) = "t"
        THEN RefreshSet(entries[e]) ELSE entries[e]]

\* MenuInterface.__init__: the menu shows get_points(), or 0 for None.
MenuInterface ==
    /\ ui.screen \in {"none", "pick"}
    /\ ui' = [screen |-> "menu",
              points |-> IF PointsTotal(rows) = None THEN 0
                         ELSE PointsTotal(rows).value]
    /\ last' = Event("MenuInterface", 0, "shown", MISS)
    /\ ret' = None
    /\ UNCHANGED <<entries, now, rows, mentions, solutions>>

\* PickSheetInterface.__init__ with a sweep of the entries.
PickSheetInterface_Refresh ==
    /\ ui' = [screen |-> "pick",
              green |-> {s \in Sheets : get_sheet_complete(s)},
              selection |-> 0, advance |-> FALSE]
    /\ last' = Event("PickSheetInterface", 0, "shown", MISS)
    /\ ret' = None
    /\ entries' = Refreshed
    /\ UNCHANGED <<now, rows, mentions, solutions>>

\* PickSheetInterface.__init__: the complete sheets are listed in green
\* and the Advance button is disabled.
PickSheetInterface ==
    /\ ui' = [screen |-> "pick",
              green |-> {s \in Sheets : get_sheet_complete(s)},
              selection |-> 0, advance |-> FALSE]
    /\ last' = Event("PickSheetInterface", 0, "shown", MISS)
    /\ ret' = None
    /\ UNCHANGED <<entries, now, rows, mentions, solutions>>

\* PickSheetInterface.select_sheet: Advance is enabled for a sheet with
\* entries.
select_sheet(sheet) ==
    /\ ui.screen = "pick"
    /\ ui' = [ui EXCEPT !.selection = sheet,
                        !.advance = SheetRows(sheet) # {}]
    /\ last' = Event("select_sheet", 0, "selected", MISS)
    /\ ret' = None
    /\ UNCHANGED <<entries, now, rows, mentions, solutions>>

\* The test interface presenting a row of get_next_entry.
Presenting(sheet_id, row, recent) ==
    [screen |-> "test", sheet |-> sheet_id, entry |-> row.entry,
     needed |-> row.needed, recent |-> recent, i |-> 0, waiting |-> FALSE,
     reattempt |-> FALSE, state |-> "normal", text |-> <<>>,
     timers |-> EmptyBag, prompts |-> 0, scored |-> <<>>]

\* TestInterface.__init__ with the first entry picked before the refresh.
TestInterface_PickFirst(sheet_id) ==
    /\ SheetRows(sheet_id) # {}
    /\ \E row \in NextEntryResults(sheet_id, <<>>) :
        ui' = Presenting(sheet_id, row, <<>>)
    /\ entries' = Refreshed
    /\ last' = Event("TestInterface", 0, "presented", MISS)
    /\ ret' = None
    /\ UNCHANGED <<now, rows, mentions, solutions>>

\* TestInterface.__init__: refresh_entries, an empty deque, then pick_word
\* for the first entry, read from the refreshed table.
TestInterface(sheet_id) ==
    /\ SheetRows(sheet_id) # {}
    /\ entries' = Refreshed
    /\ UNCHANGED <<now, rows, mentions, solutions>>
    /\ \E row \in NextEntryResults(sheet_id, <<>>)' :
        ui' = Presenting(sheet_id, row, <<>>)
    /\ last' = Event("TestInterface", 0, "presented", MISS)
    /\ ret' = None

\* The interface u after new_entry: the entry box is cleared and enabled,
\* pick_word appends the current entry to recent and asks get_next_entry.
NewEntry(u) ==
    LET recent == DequeAppend(u.recent, u.entry)
    IN  {[u EXCEPT !.state = "normal", !.text = <<>>, !.recent = recent,
                   !.entry = row.entry, !.needed = row.needed, !.i = 0,
                   !.prompts = 0, !.scored = <<>>] :
            row \in NextEntryResults(u.sheet, recent) \ {None}}

\* The text that accept_answer reads from the entry box: what is typed, or
\* what the box holds when it is disabled.  text is the content of the box
\* at the latest <Return>.
Attempt(typed) == Strip(IF ui.state = "disabled" THEN ui.text ELSE typed)

\* Every match reaches update_entry.
Scored_Always(match) == TRUE

\* match == 1 returns before update_entry is called.
Scored(match) == match # FUZZY

\* accept_answer bound to <Return>.  prompts counts the "Check your
\* spelling!" responses to the entry presented, scored lists the matches
\* that were passed on to update_entry for it.
accept_answer(typed) ==
    /\ ui.screen = "test"
    /\ IF ui.i = Frames /\ ui.waiting
       THEN /\ ui' \in NewEntry([ui EXCEPT !.waiting = FALSE])
            /\ last' = Event("accept_answer", ui.entry, "continue", MISS)
            /\ UNCHANGED entries
       ELSE IF ui.i # 0
       THEN /\ last' = Event("accept_answer", ui.entry, "ignored", MISS)
            /\ UNCHANGED <<entries, ui>>
       ELSE \E answers \in AnswerOrders(ui.entry) :
            \E match \in {MatchLoop(Attempt(typed), answers, MISS,
                                    ui.reattempt)} :
              LET r == NewResult(entries[ui.entry], match = EXACT, now)
              IN  IF ~Scored(match)
                  THEN /\ ui' = [ui EXCEPT !.reattempt = TRUE,
                                           !.text = IF ui.state = "disabled"
                                                    THEN ui.text ELSE typed,
                                           !.prompts = @ + 1]
                       /\ last' = Event("accept_answer", ui.entry,
                                        "prompt", match)
                       /\ UNCHANGED entries
                  ELSE /\ entries' = [entries EXCEPT ![ui.entry] = r]
                       /\ ui' = [ui EXCEPT
                                   !.reattempt = FALSE,
                                   !.state = "disabled",
                                   !.text = IF ui.state = "disabled"
                                            THEN ui.text ELSE typed,
                                   !.timers = @ (+) SetToBag(
                                       {Timer("animate_bar", r.so_far)}),
                                   !.scored = Append(@, match)]
                       /\ last' = Event("accept_answer", ui.entry,
                                        "scored", match)
    /\ ret' = None
    /\ UNCHANGED <<now, rows, mentions, solutions>>

\* A callback of animate_bar.  The callbacks that leave i below Frames - 1
\* only register the next one; they are taken in one step.
animate_bar(so_far) ==
    /\ ui.screen = "test"
    /\ BagIn(Timer("animate_bar", so_far), ui.timers)
    /\ LET this == SetToBag({Timer("animate_bar", so_far)})
           next == SetToBag({Timer("new_entry", 0)})
           i    == IF ui.i + 1 < Frames THEN Frames - 1 ELSE ui.i + 1
       IN  ui' = IF i < Frames THEN [ui EXCEPT !.i = i]
                 ELSE IF so_far >= -ui.needed
                      THEN [ui EXCEPT !.i = i,
                                      !.timers = (@ (-) this) (+) next]
                      ELSE [ui EXCEPT !.i = i, !.waiting = TRUE,
                                      !.timers = @ (-) this]
    /\ last' = Event("animate_bar", ui.entry, "frame", MISS)
    /\ ret' = None
    /\ UNCHANGED <<entries, now, rows, mentions, solutions>>

\* The callback of new_entry, 200 ms after the animation.
new_entry ==
    /\ ui.screen = "test"
    /\ BagIn(Timer("new_entry", 0), ui.timers)
    /\ ui' \in NewEntry([ui EXCEPT
                           !.timers = @ (-) SetToBag({Timer("new_entry", 0)})])
    /\ last' = Event("new_entry", ui.entry, "presented", MISS)
    /\ ret' = None
    /\ UNCHANGED <<entries, now, rows, mentions, solutions>>

\* <Escape> in the test interface: go_to(PickSheetInterface).  The widgets
\* are destroyed; the callbacks still pending fail on them.
Escape == ui.screen = "test" /\ PickSheetInterface

\* The Test button of the menu leads to the sheets.
Sheets_ == ui.screen = "menu" /\ PickSheetInterface

\* The Advance button: go_to(TestInterface, sheet).
Advance ==
    /\ ui.screen = "pick"
    /\ ui.advance
    /\ \E sheet \in Sheets : sheet = ui.selection /\ TestInterface(sheet)

\* The text would be classified as a miss.
Missed(typed) ==
    \A answers \in AnswerOrders(ui.entry) :
        MatchLoop(Attempt(typed), answers, MISS, ui.reattempt) = MISS

\* <Return> with a text in the entry box.  At most MaxTimers callbacks are
\* pending, and an entry at needed = StoreNeeded is not answered wrongly.
Return ==
    \E typed \in Texts :
        /\ ui.screen = "test"
        /\ ui.i = 0 =>
            /\ BagCardinality(ui.timers) < MaxTimers
            /\ entries[ui.entry].needed < StoreNeeded \/ ~Missed(typed)
        /\ accept_answer(typed)

\* The program is started on the database of Init.
InitSession == Init

\* Test sessions on sheet 2 within one day, with <Return> at any time.
NextSession ==
    \/ MenuInterface
    \/ Sheets_
    \/ select_sheet(2)
    \/ Advance
    \/ Return
    \/ \E so_far \in -MaxNeeded..MaxNeeded : animate_bar(so_far)
    \/ new_entry
    \/ Escape

SpecSession == InitSession /\ [][NextSession]_vars

\* ---------------------------------------------------------------- edit_entry
\* The rows of solutions that can come first under ORDER BY displayed DESC.
TopResults(old) ==
    {k \in 1..Len(old) :
        \A j \in 1..Len(old) : old[j].displayed => old[k].displayed}

\* The sequences that list the elements of the set S once each.
Orders(S) ==
    {q \in [1..Cardinality(S) -> S] :
        \A i, j \in 1..Cardinality(S) : i # j => q[i] # q[j]}

\* The solutions of an entry after edit_entry, for the row top that the
\* query returned first and the order added in which the set to_add is
\* iterated.
EditedSolutions(old, answers, top, added) ==
    LET displayed_answer == Head(answers)
        other_answers == {answers[i] : i \in 2..Len(answers)}
        given == {answers[i] : i \in 1..Len(answers)}
        demoted(k) == k = top /\ old[k].text \in other_answers
        found(k) == ~demoted(k) /\ old[k].text = displayed_answer
        found_top == \E k \in 1..Len(old) : found(k)
        flagged == [k \in 1..Len(old) |->
                      Solution(old[k].text,
                               IF demoted(k) THEN FALSE
                               ELSE IF found(k) /\ k # top THEN TRUE
                               ELSE old[k].displayed)]
        kept(x) == x.text \in given
    IN  SelectSeq(flagged, kept) \o
        [i \in 1..Len(added) |-> Solution(added[i], i = 1 /\ ~found_top)]

\* The solutions are brought to the given answers and the mentions of the
\* entry to the given sheets; the row of entries keeps its progress.
edit_entry(entry, answers, sheets) ==
    /\ LET old == solutions[entry]
           to_add == {answers[i] : i \in 1..Len(answers)}
                       \ {old[k].text : k \in 1..Len(old)}
       IN  \E top \in TopResults(old), added \in Orders(to_add) :
             solutions' = [solutions EXCEPT ![entry] =
                             EditedSolutions(old, answers, top, added)]
    /\ mentions' = {m \in mentions : m[2] # entry}
                     \cup {<<sheet, entry>> : sheet \in sheets}
    /\ last' = [answers |-> answers] @@ Event("edit_entry", entry, "saved", MISS)
    /\ ret' = None
    /\ UNCHANGED <<entries, now, rows, ui>>

\* ------------------------------------------------------- entries are edited
\* An entry is added to sheet 1 with one or two answers.
AddAnswers == \E answers \in AnswerLists : add_entry(answers, {1})

\* An entry is saved on sheet 1 with one or two answers.
EditAnswers ==
    \E entry \in rows, answers \in AnswerLists :
        edit_entry(entry, answers, {1})

\* Entries are added and edited in any order on a growing database.
NextEdit ==
    \/ AddAnswers
    \/ EditAnswers

SpecEdit == InitEmpty /\ [][NextEdit]_vars

\* ------------------------------------------------------ the program in use
\* EditEntryInterfaceNew.save_entry, reached from the menu, for an entry
\* that is on sheet 1 only: the answers are given with "karga" first and
\* the entry is put on both sheets.
save_entry ==
    /\ ui.screen = "menu"
    /\ \E entry \in SheetRows(1) \ SheetRows(2) :
        edit_entry(entry, <<Karga, Kargad>>, Sheets)

\* <Return> by a user who awaits the end of the animation.
AwaitedReturn ==
    /\ ui.screen = "test"
    /\ ui.i = 0 => ui.timers = EmptyBag
    /\ Return

\* <Return> awaited after every animation, with any of the texts.
DrillReturn ==
    \E typed \in Texts :
        /\ ui.screen = "test"
        /\ ui.i = 0 => ui.timers = EmptyBag
        /\ accept_answer(typed)

\* Test sessions on sheet 2 within one day, with as many wrong answers as
\* the user gives.
NextDrill ==
    \/ MenuInterface
    \/ Sheets_
    \/ select_sheet(2)
    \/ Advance
    \/ DrillReturn
    \/ \E so_far \in -MaxNeeded..MaxNeeded : animate_bar(so_far)
    \/ new_entry
    \/ Escape

SpecDrill == InitSession /\ [][NextDrill]_vars

\* Days over which the program is in use.
AppDays == 2

\* A day passes while the program is open.
Day ==
    /\ now < AppDays
    /\ now' = now + 1
    /\ last' = Event("tick", 0, "day", MISS)
    /\ UNCHANGED <<entries, ret, others>>

\* The program in use over a few days: entries are edited from the menu
\* and tested on the sheets.
NextApp ==
    \/ MenuInterface
    \/ save_entry
    \/ Sheets_
    \/ \E sheet \in Sheets : select_sheet(sheet)
    \/ Advance
    \/ AwaitedReturn
    \/ \E so_far \in -MaxNeeded..MaxNeeded : animate_bar(so_far)
    \/ new_entry
    \/ Escape
    \/ Day

SpecApp == InitSession /\ [][NextApp]_vars

\* Sheet 1 is practised over a few days.
Next ==
    \/ Hit(1)
    \/ Miss(1)
    \/ refresh_entries
    \/ Tick(ShortTime)

Spec == Init /\ [][Next]_vars

\* Sheet 2 is practised over months.
NextDecay ==
    \/ Hit(2)
    \/ Miss(2)
    \/ refresh_entries
    \/ Tick(MaxTime)

SpecDecay == Init /\ [][NextDecay]_vars

TypeOK ==
    /\ now \in 0..MaxTime
    /\ \A e \in Entries :
        /\ entries[e].points \in Nat
        /\ entries[e].needed \in Int
        /\ entries[e].so_far \in Int
        /\ entries[e].completed \in {NULL} \cup (0..MaxTime)

\* ------------------------------------------------------------- properties
Min(a, b) == IF a < b THEN a ELSE b

Max(a, b) == IF a > b THEN a ELSE b

\* The last operation was update_entry(e, correct).
Answered(e, correct) ==
    last.op = "update_entry" /\ last.entry = e /\ last.correct = correct

Swept == last.op = "refresh_entries"

\* The instant after which a row completed at c with p points is due:
\* c plus 1 day, 7 days, 1 month, 3 months for p = 0, 1, 2, 3.
Due(c, p) ==
    CASE p = 0 -> AddDays(c, 1)
      [] p = 1 -> AddDays(c, 7)
      [] p = 2 -> AddMonths(c, 1)
      [] p = 3 -> AddMonths(c, 3)

\* The last sweep promoted row e: the UPDATE rewrote it.
Promoted(e) == Swept /\ entries[e] # last.before[e]

\* C1: needed of every entry is between 2 and 10 in every state reachable
\* from fresh entries by update_entry and refresh_entries.
C1_NeededInRange == \A e \in Entries : entries[e].needed \in 2..10

\* A wrong answer given at needed = 10.
C1_Witness ==
    \E e \in Entries :
        /\ Answered(e, FALSE)
        /\ last.before[e].needed = 10
        /\ entries[e].needed = 10

\* C2: -needed <= so_far <= needed for every entry in every reachable state.
C2_SoFarWithinNeeded ==
    \A e \in Entries :
        /\ -entries[e].needed <= entries[e].so_far
        /\ entries[e].so_far <= entries[e].needed

\* A right answer that lowered needed from a completed cycle at 10.
C2_Witness ==
    \E e \in Entries :
        /\ Answered(e, TRUE)
        /\ last.before[e].needed = 10 /\ last.before[e].so_far = 10
        /\ entries[e].needed = 9 /\ entries[e].so_far = 9

\* C3: a wrong answer sets needed to min(needed + 1, 10), so_far to minus
\* the new needed, completed to NULL, and keeps points.
C3_MissTransition ==
    \A e \in Entries :
        Answered(e, FALSE) =>
            /\ entries[e].needed = Min(last.before[e].needed + 1, 10)
            /\ entries[e].so_far = -entries[e].needed
            /\ entries[e].completed = NULL
            /\ entries[e].points = last.before[e].points

\* A wrong answer to a promoted entry whose completed was set.
C3_Witness ==
    \E e \in Entries :
        /\ Answered(e, FALSE)
        /\ last.before[e].completed # NULL
        /\ last.before[e].points = 1
        /\ entries[e].so_far = -3

\* C4: a right answer at so_far < needed increments so_far, except that
\* from -1 it becomes needed; needed and points are kept and the result is
\* never 0.
C4_HitBelowNeeded ==
    \A e \in Entries :
        (Answered(e, TRUE) /\ last.before[e].so_far < last.before[e].needed) =>
            /\ entries[e].so_far =
                 (IF last.before[e].so_far = -1 THEN last.before[e].needed
                  ELSE last.before[e].so_far + 1)
            /\ entries[e].needed = last.before[e].needed
            /\ entries[e].points = last.before[e].points
            /\ entries[e].so_far # 0

\* A right answer given at so_far = -1.
C4_Witness ==
    \E e \in Entries :
        /\ Answered(e, TRUE)
        /\ last.before[e].so_far = -1
        /\ entries[e].so_far = entries[e].needed

\* C5 as stated: a right answer at so_far = needed sets needed to
\* max(needed - 1, 2) and so_far to so_far - 1, for every needed in 2..10.
C5_DemoteEveryNeeded ==
    \A e \in Entries :
        (Answered(e, TRUE) /\ last.before[e].so_far = last.before[e].needed) =>
            /\ entries[e].needed = Max(last.before[e].needed - 1, 2)
            /\ entries[e].so_far = last.before[e].so_far - 1

\* C5 amended: a right answer at so_far = needed lowers needed and so_far
\* by one when needed is in 3..10, and keeps both at 2 when needed = 2.
C5_DemoteAboveFloor ==
    \A e \in Entries :
        (Answered(e, TRUE) /\ last.before[e].so_far = last.before[e].needed) =>
            IF last.before[e].needed > 2
            THEN /\ entries[e].needed = last.before[e].needed - 1
                 /\ entries[e].so_far = last.before[e].so_far - 1
            ELSE /\ entries[e].needed = 2
                 /\ entries[e].so_far = 2

\* A right answer given at needed = so_far = 2.
C5_Witness ==
    \E e \in Entries :
        /\ Answered(e, TRUE)
        /\ last.before[e].needed = 2 /\ last.before[e].so_far = 2

\* C6: completed is set only if needed = 2 and so_far = 2.
C6_CompletedOnlyAtFloor ==
    \A e \in Entries :
        entries[e].completed # NULL =>
            entries[e].needed = 2 /\ entries[e].so_far = 2

\* A wrong answer to one entry while the other entry's completed stays set.
C6_Witness ==
    \E e, f \in Entries :
        /\ e # f
        /\ Answered(e, FALSE)
        /\ last.before[e].completed # NULL
        /\ entries[f].completed # NULL

\* C7: the right answer that brings an entry with unset completed to
\* needed = so_far = 2 stamps completed with the current time; a right
\* answer to an entry whose completed is set keeps the timestamp; a set
\* timestamp changes only to NULL, and only by a wrong answer or a sweep.
C7_CompletedStampedOnce ==
    \A e \in Entries :
        /\ (Answered(e, TRUE) /\ last.before[e].completed = NULL
               /\ entries[e].needed = 2 /\ entries[e].so_far = 2)
             => entries[e].completed = now
        /\ (Answered(e, TRUE) /\ last.before[e].completed # NULL)
             => entries[e].completed = last.before[e].completed
        /\ (last.before[e].completed # NULL
               /\ entries[e].completed # last.before[e].completed)
             => /\ entries[e].completed = NULL
                /\ (Swept \/ Answered(e, FALSE))

\* A right answer on a later day than the one that stamped completed.
C7_Witness ==
    \E e \in Entries :
        /\ Answered(e, TRUE)
        /\ last.before[e].completed # NULL
        /\ last.before[e].completed < now
        /\ entries[e].completed = last.before[e].completed

\* C8 as stated: a sweep promotes an entry if and only if completed is set,
\* points is 0..3 and the time since completed is greater than or equal to
\* the threshold for its points.
C8_PromotedAtOrPastThreshold ==
    \A e \in Entries :
        Swept =>
            (Promoted(e) <=>
                /\ last.before[e].completed # NULL
                /\ last.before[e].points \in 0..3
                /\ now >= Due(last.before[e].completed, last.before[e].points))

\* C8 amended: a sweep promotes an entry if and only if completed is set,
\* points is 0..3 and the current time is later than completed plus the
\* threshold for its points; at exactly the threshold it is not promoted.
C8_PromotedPastThreshold ==
    \A e \in Entries :
        Swept =>
            (Promoted(e) <=>
                /\ last.before[e].completed # NULL
                /\ last.before[e].points \in 0..3
                /\ now > Due(last.before[e].completed, last.before[e].points))

\* A sweep exactly three months after completed of an entry with 3 points.
C8_Witness ==
    \E e \in Entries :
        /\ Swept
        /\ last.before[e].completed # NULL
        /\ last.before[e].points = 3
        /\ now = Due(last.before[e].completed, 3)
        /\ ~Promoted(e)

\* C9: a promoted entry gains exactly one point, completed becomes NULL,
\* so_far becomes 0 and needed is kept.
C9_PromotionEffect ==
    \A e \in Entries :
        Promoted(e) =>
            /\ entries[e].points = last.before[e].points + 1
            /\ entries[e].completed = NULL
            /\ entries[e].so_far = 0
            /\ entries[e].needed = last.before[e].needed

\* A sweep that promoted an entry from 3 to 4 points.
C9_Witness ==
    \E e \in Entries : Promoted(e) /\ entries[e].points = 4

\* C10: a sweep leaves every column of an entry unchanged when completed is
\* NULL, when points >= 4, or when the time since completed is below the
\* threshold for its points.
C10_SweepFrame ==
    \A e \in Entries :
        (/\ Swept
         /\ \/ last.before[e].completed = NULL
            \/ last.before[e].points >= 4
            \/ /\ last.before[e].points \in 0..3
               /\ now < Due(last.before[e].completed, last.before[e].points))
        => entries[e] = last.before[e]

\* A sweep over an entry with 4 points whose completed is more than three
\* months old, next to an entry whose completed is NULL.
C10_Witness ==
    \E e, f \in Entries :
        /\ Swept
        /\ last.before[e].points = 4
        /\ last.before[e].completed # NULL
        /\ now > AddMonths(last.before[e].completed, 3)
        /\ last.before[f].completed = NULL
        /\ entries[e] = last.before[e]

\* ------------------------------------------------- properties of selection
\* The last operation was a get_next_entry call.
Selected == last.op = "get_next_entry"

\* The entry ids in a deque.
Recent(previous) == {previous[i] : i \in 1..Len(previous)}

\* The position of the latest presentation of e in the deque.
LastSeen(e, previous) ==
    CHOOSE i \in 1..Len(previous) :
        /\ previous[i] = e
        /\ \A j \in (i + 1)..Len(previous) : previous[j] # e

\* C11: get_next_entry never returns an entry of recent while the sheet
\* mentions an entry that is not in recent, whatever the so_far values.
C11_NonRecentFirst ==
    (/\ Selected
     /\ \E e \in SheetRows(last.sheet) : e \notin Recent(last.previous))
    => /\ ret.kind = "row"
       /\ ret.entry \notin Recent(last.previous)

\* A call where the recent entry has the better proficiency bucket
\* (so_far = 1) and the entry that is not recent the worst (so_far = 2).
C11_Witness ==
    /\ Selected
    /\ ret.kind = "row"
    /\ entries[ret.entry].so_far = 2
    /\ \E f \in SheetRows(last.sheet) :
        /\ f \in Recent(last.previous)
        /\ entries[f].so_far = 1
        /\ ret.entry \notin Recent(last.previous)

\* C12: when every entry of the sheet is in recent, get_next_entry returns
\* the entry whose latest presentation is the oldest, also when recent
\* holds an entry id more than once.
C12_LeastRecentlySeen ==
    (/\ Selected
     /\ SheetRows(last.sheet) # {}
     /\ SheetRows(last.sheet) \subseteq Recent(last.previous))
    => /\ ret.kind = "row"
       /\ \A f \in SheetRows(last.sheet) :
            LastSeen(ret.entry, last.previous) <= LastSeen(f, last.previous)

\* The entries of the sheet with the lowest recency term.
BestRank(sheet, previous) ==
    {e \in SheetRows(sheet) :
        \A f \in SheetRows(sheet) :
            RecencyCase(e, previous) <= RecencyCase(f, previous)}

\* The bucket of BestRank that C13 names: so_far outside {0, 2} if there is
\* such an entry, else so_far = 0 if there is one, else so_far = 2.
Winners(sheet, previous) ==
    LET best   == BestRank(sheet, previous)
        active == {e \in best : entries[e].so_far \notin {0, 2}}
        fresh  == {e \in best : entries[e].so_far = 0}
    IN  IF active # {} THEN active ELSE IF fresh # {} THEN fresh ELSE best

\* C13: among the entries with the best recency rank get_next_entry
\* returns one with so_far outside {0, 2} if there is one, else one with
\* so_far = 0, else one with so_far = 2; every entry of that bucket can be
\* returned.
C13_BucketOrder ==
    (Selected /\ SheetRows(last.sheet) # {})
    => /\ ret.kind = "row"
       /\ ret.entry \in Winners(last.sheet, last.previous)
       /\ NextEntryResults(last.sheet, last.previous) =
            {EntryRow(e) : e \in Winners(last.sheet, last.previous)}

\* A call that returns an entry with so_far = 0 although an entry of the
\* same recency rank has so_far = 2.
C13_Witness ==
    /\ Selected
    /\ ret.kind = "row"
    /\ ret.so_far = 0
    /\ \E f \in BestRank(last.sheet, last.previous) : entries[f].so_far = 2

\* The last operation was a get_points call.
Totalled == last.op = "get_points"

RECURSIVE Stars(_)
\* points of every entry of S plus one for each entry with so_far = 2.
Stars(S) ==
    IF S = {} THEN 0
    ELSE LET e == CHOOSE x \in S : TRUE
         IN  entries[e].points + (IF entries[e].so_far = 2 THEN 1 ELSE 0)
               + Stars(S \ {e})

Mentioned(sheet) == {e \in Entries : <<sheet, e>> \in mentions}

\* C20 as stated: get_next_entry on a sheet that mentions no entry ends in
\* an EmptySheetError.
C20_EmptySheetError ==
    (Selected /\ Mentioned(last.sheet) = {}) => ret.kind = "EmptySheetError"

\* C20 amended: get_next_entry on a sheet that mentions no entry raises
\* nothing and returns None.
C20_EmptySheetNone ==
    (Selected /\ Mentioned(last.sheet) = {}) => ret = None

\* A call on the empty sheet 2 of a table that holds entries.
C20_Witness ==
    /\ Selected
    /\ rows # {}
    /\ Mentioned(last.sheet) = {}
    /\ ret = None

\* -------------------------------------------- properties of the test session
\* The last handler was accept_answer and it classified the text as m.
Classified(m) ==
    /\ last.op = "accept_answer"
    /\ last.outcome \in {"prompt", "scored"}
    /\ last.match = m

\* The last handler presented an entry.
Presented ==
    \/ last.op \in {"TestInterface", "new_entry"}
    \/ last.op = "accept_answer" /\ last.outcome = "continue"

\* The texts that the solutions table holds for entry e.
Accepted(e) == {solutions[e][k].text : k \in 1..Len(solutions[e])}

\* What the sweep makes of row r at the present time: a completed row past
\* its due instant gains a point and starts again at so_far = 0.
SweptRow(r) ==
    IF r.completed # NULL /\ r.points \in 0..3
         /\ now > Due(r.completed, r.points)
    THEN [points |-> r.points + 1, needed |-> r.needed, so_far |-> 0,
          completed |-> NULL]
    ELSE r

\* C14: a presentation gets at most one "Check your spelling!" prompt, a
\* submission is classified FUZZY only as the first prompt of its
\* presentation, and every presentation starts with fuzzy matching enabled.
C14_OnePromptPerPresentation ==
    ui.screen = "test" =>
        /\ ui.prompts <= 1
        /\ Presented => ~ui.reattempt

\* C15: a submission classified FUZZY is not scored: no row of entries
\* changes and the same entry stays presented.
C15_FuzzyNotScored ==
    Classified(FUZZY) =>
        /\ last.outcome = "prompt"
        /\ entries = last.before
        /\ ui.screen = "test"
        /\ ui.entry = last.entry
        /\ ui.i = 0

\* A prompt for an entry that has been answered before.
C15_Witness ==
    /\ Classified(FUZZY)
    /\ entries[last.entry] # NewRow
    /\ ui.text = Kargda

\* C16: a submission whose trimmed text equals an accepted answer of the
\* entry is classified EXACT and scored as matched, wherever that answer
\* stands in the list.
C16_ExactWhenEqual ==
    (/\ last.op = "accept_answer"
     /\ last.outcome \in {"prompt", "scored"}
     /\ Strip(ui.text) \in Accepted(last.entry))
    => /\ last.match = EXACT
       /\ last.outcome = "scored"
       /\ entries[last.entry] = HitResult(last.before[last.entry], now)

\* " karga " is submitted with fuzzy matching allowed for an entry whose
\* first answer "kargad" is only a near match.
C16_Witness ==
    /\ Classified(EXACT)
    /\ ui.prompts = 0
    /\ ui.text = PaddedKarga
    /\ solutions[last.entry][1] = Solution(Kargad, TRUE)
    /\ is_close(Karga, Kargad)

\* C17: the rows of entries are changed only by a scored answer, which
\* changes the row of the entry presented, and by the start of a test
\* session; showing the menu or the sheets, selecting a sheet, saving an
\* edited entry, presenting the next entry and leaving the session change
\* no row.
C17_ProgressWriters ==
    entries # last.before =>
        \/ /\ Classified(EXACT) \/ Classified(MISS)
           /\ last.outcome = "scored"
           /\ \A e \in Entries \ {last.entry} : entries[e] = last.before[e]
        \/ last.op = "TestInterface"

\* <Escape> in a test session, which began with a sweep, on a database
\* with a saved edit.
C17_Witness ==
    /\ last.op = "PickSheetInterface"
    /\ last.screen = "test"
    /\ entries = last.before
    /\ \E e \in Entries : entries[e].points > 0
    /\ \E e \in Entries : solutions[e][2] = Solution(Karga, TRUE)

\* C18: a test session starts with the sweep and picks its first entry
\* from the swept table; no later handler of the session sweeps: at most
\* the row of the entry presented changes, by a scored answer.
C18_SweepOnceAtStart ==
    /\ last.op = "TestInterface" =>
        /\ \A e \in Entries : entries[e] = SweptRow(last.before[e])
        /\ ui.entry \in Winners(ui.sheet, <<>>)
    /\ (last.op # "TestInterface" /\ last.op # "init"
            /\ last.screen = "test") =>
        \A e \in Entries :
            \/ entries[e] = last.before[e]
            \/ /\ e = last.entry
               /\ last.op = "accept_answer"
               /\ last.outcome = "scored"

\* A session starts by presenting an entry that the sweep has just
\* promoted, on a sheet whose other entry stays at so_far = 2.
C18_Witness ==
    /\ last.op = "TestInterface"
    /\ last.before[ui.entry].so_far = 2
    /\ entries[ui.entry].so_far = 0
    /\ \E f \in SheetRows(ui.sheet) : f # ui.entry /\ entries[f].so_far = 2

\* ---------------------------------------------- properties of the matching
\* The last operation classified the text t against the single answer
\* "kargad" with fuzzy matching allowed.
Submitted(t) ==
    /\ last.op = "classify"
    /\ ui.text = t
    /\ ui.answers = <<Kargad>>
    /\ ~ui.reattempt

\* C21 as stated: with fuzzy matching allowed and the single answer
\* "kargad", "kargad" is classified EXACT, "kargda" FUZZY and "xyz" MISS.
C21_KargdaFuzzy ==
    /\ Submitted(Kargad) => ret = IntValue(EXACT)
    /\ Submitted(Kargda) => ret = IntValue(FUZZY)
    /\ Submitted(Xyz) => ret = IntValue(MISS)

\* C21 amended: with fuzzy matching allowed and the single answer
\* "kargad", "kargad" is classified EXACT, "karga" (ratio 10/11) FUZZY,
\* and "kargda" (ratio 10/12, below 0.9) and "xyz" MISS.
C21_KargdaMiss ==
    /\ Submitted(Kargad) => ret = IntValue(EXACT)
    /\ Submitted(Karga) => ret = IntValue(FUZZY)
    /\ Submitted(Kargda) => ret = IntValue(MISS)
    /\ Submitted(Xyz) => ret = IntValue(MISS)

\* "kargda" has been classified against "kargad": five characters match.
C21_Witness ==
    /\ Submitted(Kargda)
    /\ Matches(Kargda, Kargad, 0, 6, 0, 6) = 5
    /\ ret = IntValue(MISS)

\* ------------------------------------------- properties of the answer lists
\* The last operation saved an answer list for an entry.
Saved == last.op \in {"add_entry", "edit_entry"}

\* The rows of solutions of entry e that are flagged displayed.
Displayed(e) == {k \in 1..Len(solutions[e]) : solutions[e][k].displayed}

\* C22: after add_entry and edit_entry calls with non-empty, duplicate-free
\* answer lists every entry has exactly one solution flagged displayed; for
\* the entry just saved it is the first element of the list supplied, and
\* get_answers_for_entry returns it first.
C22_DisplayedIsFirst ==
    /\ \A e \in rows : Cardinality(Displayed(e)) = 1
    /\ Saved =>
        /\ \A k \in Displayed(last.entry) :
              solutions[last.entry][k].text = Head(last.answers)
        /\ \A answers \in AnswerOrders(last.entry) :
              Head(answers) = Head(last.answers)

\* ------------------------------------- properties of the order of a session
\* The last handler presented the entry that follows an answered one.
PresentedNext ==
    \/ last.op = "new_entry"
    \/ last.op = "accept_answer" /\ last.outcome = "continue"

\* C23: in a test session on a sheet with at least two entries the entry
\* presented next is never the entry that was just answered, however many
\* entries the session has presented.
C23_NoImmediateRepeat ==
    (PresentedNext /\ Cardinality(SheetRows(ui.sheet)) >= 2) =>
        ui.entry # last.entry

\* ---------------------------------------- properties of the scoring of a test
\* C24: each presentation of an entry is scored at most once: after
\* accept_answer has called update_entry for the entry presented, no
\* <Return> before the next presentation leads to a second call.
C24_ScoredOnce == ui.screen = "test" => Len(ui.scored) <= 1

\* C25: after a scored MISS the animation ends in the waiting state with
\* no presentation scheduled, at every needed of the entry from 2 to 10;
\* after a scored EXACT the animation ends with the next presentation
\* scheduled and without waiting.
C25_WaitAfterMiss ==
    (ui.screen = "test" /\ ui.i = Frames) =>
        /\ ui.scored = <<MISS>> =>
              ui.waiting /\ ui.timers = EmptyBag
        /\ ui.scored = <<EXACT>> =>
              ~ui.waiting /\ ui.timers = SetToBag({Timer("new_entry", 0)})

\* ------------------------------------------- properties of the reachable rows
\* C26: in every state reachable from fresh entries by update_entry and
\* refresh_entries, completed is set if and only if so_far = 2, and then
\* needed = 2: no row has so_far = 2 with needed above 2 or without a
\* timestamp.
C26_CompletedIffTwo ==
    \A e \in Entries :
        /\ entries[e].completed # NULL <=> entries[e].so_far = 2
        /\ entries[e].so_far = 2 => entries[e].needed = 2

\* A promoted entry that was missed comes down from needed = so_far = 3
\* to 2 and is stamped again.
C26_Witness ==
    \E e \in Entries :
        /\ Answered(e, TRUE)
        /\ last.before[e].needed = 3 /\ last.before[e].so_far = 3
        /\ last.before[e].completed = NULL
        /\ entries[e].points >= 1
        /\ entries[e].so_far = 2
        /\ entries[e].completed = now

\* C27: every reachable row has one of three shapes: so_far < 0, so_far =
\* needed, or needed = 2 with so_far 0 or 1; so_far = 0 stands only with
\* needed = 2 and completed unset, and a so_far strictly between 0 and
\* needed only as so_far = 1 at needed = 2.
C27_RowShapes ==
    \A e \in Entries :
        LET r == entries[e]
        IN  /\ \/ r.so_far < 0
               \/ r.so_far = r.needed
               \/ r.needed = 2 /\ r.so_far \in {0, 1}
            /\ r.so_far = 0 => r.needed = 2 /\ r.completed = NULL
            /\ (0 < r.so_far /\ r.so_far < r.needed) =>
                  r.needed = 2 /\ r.so_far = 1

\* A sweep has just put an entry back to so_far = 0 while the other
\* entry stands in a penalty at a raised needed.
C27_Witness ==
    \E e, f \in Entries :
        /\ Promoted(e)
        /\ entries[e].so_far = 0 /\ entries[e].points = 1
        /\ entries[f].so_far < 0 /\ entries[f].needed > 2

\* --------------------------------------------- properties of the points total
\* C28: refresh_entries never changes the value of get_points: a promoted
\* entry gains a point and stops counting as an entry with so_far = 2, so
\* the total is the same before and after the sweep.
C28_SweepKeepsTotal ==
    [][refresh_entries => PointsTotal(rows)' = PointsTotal(rows)]_vars

\* A sweep has promoted one entry while another entry keeps its so_far =
\* 2, and the total stands at two.
C28_Witness ==
    /\ Swept
    /\ \E e, f \in rows :
        /\ entries[e] # last.before[e]
        /\ entries[e].points = 1 /\ entries[e].so_far = 0
        /\ entries[f].so_far = 2 /\ entries[f] = last.before[f]
    /\ PointsTotal(rows) = IntValue(2)

\* -------------------------------------------- properties of a run of answers
RECURSIVE Run(_, _, _)
\* The row that n right answers in a row, given at time t, make of row r.
Run(r, n, t) == IF n = 0 THEN r ELSE Run(HitResult(r, t), n - 1, t)

\* C29: from every reachable row a run of right answers without a wrong
\* answer or a sweep in between stands at needed = so_far = 2 with
\* completed set once 18 answers are given, and every further right answer
\* leaves the row as it is.
C29_RunReachesFloor ==
    \A e \in Entries :
        \E r \in {Run(entries[e], 18, now)} :
            /\ r.needed = 2 /\ r.so_far = 2
            /\ r.completed # NULL
            /\ HitResult(r, now) = r

\* A wrong answer has put an entry at needed = 10 and so_far = -10, from
\* where 17 right answers do not suffice.
C29_Witness ==
    \E e \in Entries :
        /\ Answered(e, FALSE)
        /\ entries[e].needed = 10 /\ entries[e].so_far = -10
        /\ Run(entries[e], 17, now).needed = 3
        /\ Run(entries[e], 18, now).so_far = 2

\* ------------------------------------------- properties of a complete sheet
\* Every entry that the sheet mentions stands at so_far = 2 in table t.
AllAtTwo(sheet, t) == \A e \in Mentioned(sheet) : t[e].so_far = 2

\* C30: get_sheet_complete returns true exactly for a sheet none of whose
\* entries has so_far other than 2, and a right answer to an entry of such
\* a sheet leaves the entry's points, needed, so_far and completed as they
\* are.
C30_CompleteSheetFrame ==
    /\ ui.screen = "pick" =>
          ui.green = {s \in Sheets : AllAtTwo(s, entries)}
    /\ (Classified(EXACT) /\ last.outcome = "scored") =>
          \A s \in Sheets :
              (last.entry \in Mentioned(s) /\ AllAtTwo(s, last.before)) =>
                  entries[last.entry] = last.before[last.entry]

\* A right answer has been scored in a session on sheet 1, whose two
\* entries stood at so_far = 2, one of them promoted before.
C30_Witness ==
    /\ Classified(EXACT)
    /\ last.outcome = "scored"
    /\ ui.sheet = 1
    /\ Cardinality(Mentioned(1)) = 2
    /\ AllAtTwo(1, last.before)
    /\ entries[last.entry].points = 1
    /\ entries[last.entry].so_far = 2
====
